---- MODULE Spec2Model ----
(***************************************************************************)
(* basebits: a DNA string of up to 21 bases packed into a u64, three bits  *)
(* per base, with a second u64 (nbits) that masks out the undetermined     *)
(* bases, and Hamming distances computed on the packed words.              *)
(*                                                                         *)
(* A u64 is modelled bit by bit, as the set of the positions 0..63 of its  *)
(* one bits (bit 0 the least significant), so that shifts drop the bits    *)
(* that leave the word exactly as the machine word does.                   *)
(***************************************************************************)
EXTENDS Integers, Sequences, FiniteSets, TLC

VARIABLES alpha_seq, beta_seq, alpha, beta, pc, decoded, shown, dist

vars == <<alpha_seq, beta_seq, alpha, beta, pc, decoded, shown, dist>>

(***************************************************************************)
(* Bounds of the explored inputs.                                          *)
(***************************************************************************)
\* the longest input tried: one more than the capacity
MaxLen == 22
\* the largest difference between the lengths of the two inputs
MaxSkew == 1
\* the largest step of the cyclic walk through the alphabet
MaxStride == 1

(***************************************************************************)
(* Constants of lib.rs.                                                    *)
(***************************************************************************)
ENCODING_DIST == 2
ENCODING_LENGTH == 3
CONTAINER_WIDTH == 64
MAX_BASES == CONTAINER_WIDTH \div ENCODING_LENGTH

(***************************************************************************)
(* u64 arithmetic.                                                         *)
(***************************************************************************)
BitIdx == 0..(CONTAINER_WIDTH - 1)

\* a literal as a u64: a literal of the model is below 2^31
LiteralBits == 0..30
U64(v) == {i \in LiteralBits : (v \div (2 ^ i)) % 2 = 1}

\* !0b0, u64::MAX
MAX_VAL == BitIdx

\* w << k and w >> k for k < 64: the bits that leave the word are dropped
Shl(w, k) == {i + k : i \in w} \cap BitIdx
Shr(w, k) == {i - k : i \in w} \cap BitIdx
BitOr(x, y) == x \cup y
BitAnd(x, y) == x \cap y
BitXor(x, y) == (x \ y) \cup (y \ x)
BitNot(x) == BitIdx \ x

count_ones(w) == Cardinality(w)

\* 0b100
UNDETERMINED == U64(4)

\* 0b000, 0b110, 0b101, 0b011
Bases_A == U64(0)
Bases_C == U64(6)
Bases_T == U64(5)
Bases_G == U64(3)
Bases_N == UNDETERMINED

\* the literals 0b000 and 0b111 of the mask update
B000 == U64(0)
B111 == U64(7)

(***************************************************************************)
(* Bytes and characters.  A byte is its ASCII number, a character a string *)
(* of one letter; a text is a sequence of characters.                      *)
(***************************************************************************)
Alphabet == <<"A", "C", "T", "G", "N", "9">>

\* str::as_bytes, one character
byte_of(c) == CASE c = "A" -> 65
                [] c = "C" -> 67
                [] c = "G" -> 71
                [] c = "T" -> 84
                [] c = "N" -> 78
                [] c = "9" -> 57

as_bytes(text) == [i \in 1..Len(text) |-> byte_of(text[i])]

\* str::from_utf8(..).unwrap() on ASCII bytes
char_of(b) == CHOOSE c \in {Alphabet[k] : k \in 1..Len(Alphabet)} : byte_of(c) = b

from_utf8(bytes) == [i \in 1..Len(bytes) |-> char_of(bytes[i])]

(***************************************************************************)
(* BaseBits::new                                                           *)
(***************************************************************************)
LengthExceeded == "Length of string to encode exceeds MAX_BASES"

base_of(c) == CASE c = 65 -> Bases_A
                [] c = 67 -> Bases_C
                [] c = 84 -> Bases_T
                [] c = 71 -> Bases_G
                [] OTHER -> Bases_N

\* faulty variant: the new group is OR-ed in before the shift
code_step_or_first(code, base) == Shl(BitOr(code, base), ENCODING_LENGTH)

code_step(code, base) == BitOr(Shl(code, ENCODING_LENGTH), base)

\* faulty variant: an undetermined base clears only part of its mask group
nbits_step_partial(nbits, base) ==
    IF base = Bases_N
    THEN BitOr(Shl(nbits, ENCODING_LENGTH), U64(1))
    ELSE BitOr(Shl(nbits, ENCODING_LENGTH), B111)

nbits_step(nbits, base) ==
    IF base = Bases_N
    THEN BitOr(Shl(nbits, ENCODING_LENGTH), B000)
    ELSE BitOr(Shl(nbits, ENCODING_LENGTH), B111)

code_init == B000

\* faulty variant: the mask starts empty
nbits_init_zero == B000

nbits_init == MAX_VAL

RECURSIVE new_loop(_, _, _, _)
new_loop(seq, i, code, nbits) ==
    IF i > Len(seq)
    THEN [ok |-> TRUE, code |-> code, nbits |-> nbits, len |-> Len(seq)]
    ELSE LET base == base_of(seq[i])
         IN new_loop(seq, i + 1, code_step(code, base), nbits_step(nbits, base))

\* faulty variant: the capacity itself is refused
too_long_off_by_one(len) == len >= MAX_BASES

too_long(len) == len > MAX_BASES

new(seq) ==
    IF too_long(Len(seq))
    THEN [ok |-> FALSE, err |-> LengthExceeded]
    ELSE new_loop(seq, 1, code_init, nbits_init)

(***************************************************************************)
(* BaseBits::decode, Display                                               *)
(***************************************************************************)
extract_bits(n, k) == BitAnd(BitNot(Shl(MAX_VAL, k)), n)

symbol_of(base) == CASE base = Bases_A -> 65
                     [] base = Bases_C -> 67
                     [] base = Bases_T -> 84
                     [] base = Bases_G -> 71
                     [] OTHER -> 78

RECURSIVE decode_loop(_, _, _)
decode_loop(code, k, s) ==
    IF k = 0 THEN s
    ELSE decode_loop(Shr(code, ENCODING_LENGTH), k - 1,
                     Append(s, symbol_of(extract_bits(code, ENCODING_LENGTH))))

rev(s) == [i \in 1..Len(s) |-> s[Len(s) + 1 - i]]

\* faulty variant: the collected symbols are not reversed
decode_unreversed(bb) == decode_loop(bb.code, bb.len, <<>>)

decode(bb) == rev(decode_loop(bb.code, bb.len, <<>>))

fmt(bb) == from_utf8(decode(bb))

(***************************************************************************)
(* Distances                                                               *)
(***************************************************************************)
\* faulty variant: the mask of the known bases is not applied
hamming_dist_nany_unmasked(a, b) ==
    count_ones(BitXor(a.code, b.code)) \div ENCODING_DIST

hamming_dist_nany(a, b) ==
    count_ones(BitAnd(BitXor(a.code, b.code), BitAnd(a.nbits, b.nbits)))
        \div ENCODING_DIST

\* faulty variant: the penalty term is divided by the wrong constant
hamming_dist_none_wrong_divisor(a, b) ==
    LET nbits_and == BitAnd(a.nbits, b.nbits)
    IN (count_ones(BitAnd(BitXor(a.code, b.code), nbits_and)) \div ENCODING_DIST)
       + (count_ones(BitNot(nbits_and)) \div ENCODING_DIST)

hamming_dist_none(a, b) ==
    LET nbits_and == BitAnd(a.nbits, b.nbits)
    IN (count_ones(BitAnd(BitXor(a.code, b.code), nbits_and)) \div ENCODING_DIST)
       + (count_ones(BitNot(nbits_and)) \div ENCODING_LENGTH)

\* faulty variant: the differing bits are not halved
hamming_code_undivided(a, b) == count_ones(BitXor(a, b))

hamming_code(a, b) == count_ones(BitXor(a, b)) \div 2

\* chars().zip(): pairs up to the end of the shorter text
RECURSIVE zip_count(_, _, _)
zip_count(a, b, i) ==
    IF i > Len(a) \/ i > Len(b) THEN 0
    ELSE (IF a[i] # b[i] THEN 1 ELSE 0) + zip_count(a, b, i + 1)

\* faulty variant: the characters the longer text has in excess count as differences
hamming_str_padded(a, b) ==
    zip_count(a, b, 1)
        + (IF Len(a) > Len(b) THEN Len(a) - Len(b) ELSE Len(b) - Len(a))

hamming_str(a, b) == zip_count(a, b, 1)

(***************************************************************************)
(* Inputs: the texts whose i-th character walks cyclically, by a fixed     *)
(* stride, through the first `ring` characters of the alphabet: the four   *)
(* bases alone, or the bases with 'N' and an unrecognized character.       *)
(***************************************************************************)
Rings == {4, Len(Alphabet)}

Walk(ring, start, stride, n) ==
    [i \in 1..n |-> Alphabet[((start + (i - 1) * stride) % ring) + 1]]

NoValue == [ok |-> FALSE, err |-> "not constructed"]

Init ==
    /\ \E ring \in Rings, n \in 0..MaxLen, skew \in (0 - MaxSkew)..MaxSkew :
         /\ n + skew \in 0..MaxLen
         /\ \E a \in 0..(ring - 1), b \in 0..(ring - 1),
               sa \in 0..MaxStride, sb \in 0..MaxStride :
              /\ alpha_seq = Walk(ring, a, sa, n)
              /\ beta_seq = Walk(ring, b, sb, n + skew)
    /\ alpha = NoValue
    /\ beta = NoValue
    /\ pc = "input"
    /\ decoded = <<>>
    /\ shown = <<>>
    /\ dist = 0

\* BaseBits::new on both inputs
New ==
    /\ pc = "input"
    /\ alpha' = new(as_bytes(alpha_seq))
    /\ beta' = new(as_bytes(beta_seq))
    /\ pc' = "new"
    /\ UNCHANGED <<alpha_seq, beta_seq, decoded, shown, dist>>

\* alpha.decode()
Decode ==
    /\ pc = "new"
    /\ alpha.ok
    /\ decoded' = decode(alpha)
    /\ pc' = "decode"
    /\ UNCHANGED <<alpha_seq, beta_seq, alpha, beta, shown, dist>>

\* alpha.to_string()
Display ==
    /\ pc = "new"
    /\ alpha.ok
    /\ shown' = fmt(alpha)
    /\ pc' = "display"
    /\ UNCHANGED <<alpha_seq, beta_seq, alpha, beta, decoded, dist>>

Nany ==
    /\ pc = "new"
    /\ alpha.ok /\ beta.ok
    /\ dist' = hamming_dist_nany(alpha, beta)
    /\ pc' = "nany"
    /\ UNCHANGED <<alpha_seq, beta_seq, alpha, beta, decoded, shown>>

None ==
    /\ pc = "new"
    /\ alpha.ok /\ beta.ok
    /\ dist' = hamming_dist_none(alpha, beta)
    /\ pc' = "none"
    /\ UNCHANGED <<alpha_seq, beta_seq, alpha, beta, decoded, shown>>

Code ==
    /\ pc = "new"
    /\ alpha.ok /\ beta.ok
    /\ dist' = hamming_code(alpha.code, beta.code)
    /\ pc' = "code"
    /\ UNCHANGED <<alpha_seq, beta_seq, alpha, beta, decoded, shown>>

Str ==
    /\ pc = "input"
    /\ dist' = hamming_str(alpha_seq, beta_seq)
    /\ pc' = "str"
    /\ UNCHANGED <<alpha_seq, beta_seq, alpha, beta, decoded, shown>>

Next == New \/ Decode \/ Display \/ Nany \/ None \/ Code \/ Str

Spec == Init /\ [][Next]_vars

(***************************************************************************)
(* What the claims speak of, stated on the input texts.                    *)
(***************************************************************************)
Determined(c) == c \in {"A", "C", "G", "T"}

\* the text with every undetermined character replaced by 'N'
Normalised(text) ==
    [i \in 1..Len(text) |-> IF Determined(text[i]) THEN text[i] ELSE "N"]

\* the value of the 3-bit group p of a word, group 0 the least significant
GroupAt(w, p) == (IF 3 * p \in w THEN 1 ELSE 0)
                 + (IF 3 * p + 1 \in w THEN 2 ELSE 0)
                 + (IF 3 * p + 2 \in w THEN 4 ELSE 0)

\* the group of the i-th symbol of an input of n symbols
GroupOf(w, n, i) == GroupAt(w, n - i)

\* the 3-bit code of a determined base
g(c) == CASE c = "A" -> 0 [] c = "C" -> 6 [] c = "T" -> 5 [] c = "G" -> 3

\* positions where both symbols are determined and differ
DeterminedMismatches(s, t) ==
    Cardinality({i \in 1..Len(s) :
        Determined(s[i]) /\ Determined(t[i]) /\ s[i] # t[i]})

\* positions where at least one symbol is undetermined
UndeterminedPositions(s, t) ==
    Cardinality({i \in 1..Len(s) : ~Determined(s[i]) \/ ~Determined(t[i])})

AllDetermined(s) == \A i \in 1..Len(s) : Determined(s[i])

SameLength == Len(alpha_seq) = Len(beta_seq)

ShorterLength ==
    IF Len(alpha_seq) < Len(beta_seq) THEN Len(alpha_seq) ELSE Len(beta_seq)

(***************************************************************************)
(* C1: for every input of at most 21 symbols new succeeds, and decode, and *)
(* with it the Display rendering, gives back as many symbols as the input  *)
(* has, the input with every byte outside A, C, G, T replaced by 'N'; an   *)
(* input over A, C, G, T, N is given back unchanged.                       *)
(***************************************************************************)
C1_RoundTrip ==
    /\ (pc = "new" /\ Len(alpha_seq) <= 21) => alpha.ok
    /\ pc = "decode" =>
         /\ Len(decoded) = Len(alpha_seq)
         /\ decoded = as_bytes(Normalised(alpha_seq))
         /\ (\A i \in 1..Len(alpha_seq) : alpha_seq[i] # "9")
               => decoded = as_bytes(alpha_seq)
    /\ pc = "display" =>
         /\ Len(shown) = Len(alpha_seq)
         /\ shown = Normalised(alpha_seq)
         /\ (\A i \in 1..Len(alpha_seq) : alpha_seq[i] # "9")
               => shown = alpha_seq

C1_Witness ==
    /\ pc = "decode"
    /\ Len(alpha_seq) = 21
    /\ \E i \in 1..21 : alpha_seq[i] = "9"
    /\ \E i \in 1..21 : alpha_seq[i] = "G"
    /\ alpha_seq[1] # alpha_seq[21]
    /\ Len(decoded) = 21

(***************************************************************************)
(* C2: new fails, with the length error, exactly when the input has more   *)
(* than 21 symbols; a failure carries no value at all, and a success has   *)
(* the length of the input.                                                *)
(***************************************************************************)
LengthContract(text, bb) ==
    /\ bb.ok <=> Len(text) <= 21
    /\ ~bb.ok => bb = [ok |-> FALSE, err |-> LengthExceeded]
    /\ bb.ok => bb.len = Len(text)

C2_LengthError ==
    pc = "new" => LengthContract(alpha_seq, alpha) /\ LengthContract(beta_seq, beta)

C2_Witness ==
    /\ pc = "new"
    /\ Len(alpha_seq) = 22 /\ ~alpha.ok
    /\ Len(beta_seq) = 21 /\ beta.ok

(***************************************************************************)
(* C3: on inputs of one length n, hamming_dist_nany is the number of       *)
(* positions where both symbols are determined and differ; it lies in      *)
(* 0..n.                                                                   *)
(***************************************************************************)
C3_WildcardAsJoker ==
    (pc = "nany" /\ SameLength) =>
        /\ dist = DeterminedMismatches(alpha_seq, beta_seq)
        /\ dist \in 0..Len(alpha_seq)

C3_Witness ==
    /\ pc = "nany"
    /\ SameLength
    /\ Len(alpha_seq) = 21
    /\ ~Determined(alpha_seq[1]) /\ Determined(beta_seq[1])
    /\ UndeterminedPositions(alpha_seq, beta_seq) > 1
    /\ dist > 1

(***************************************************************************)
(* C4: on inputs of one length, hamming_dist_none is the number of         *)
(* positions where both symbols are determined and differ plus the number  *)
(* of positions where at least one symbol is undetermined.                 *)
(***************************************************************************)
C4_DeterminedOnly ==
    (pc = "none" /\ SameLength) =>
        dist = DeterminedMismatches(alpha_seq, beta_seq)
               + UndeterminedPositions(alpha_seq, beta_seq)

C4_Witness ==
    /\ pc = "none"
    /\ SameLength
    /\ Len(alpha_seq) = 21
    /\ \E i \in 1..21 : ~Determined(alpha_seq[i]) /\ ~Determined(beta_seq[i])
    /\ \E i \in 1..21 : ~Determined(alpha_seq[i]) /\ Determined(beta_seq[i])
    /\ DeterminedMismatches(alpha_seq, beta_seq) > 1

(***************************************************************************)
(* C5: the distance of a value to itself is 0 under hamming_dist_nany and  *)
(* the number of its undetermined positions under hamming_dist_none.       *)
(***************************************************************************)
C5_SelfDistance ==
    /\ (pc = "nany" /\ alpha = beta) => dist = 0
    /\ (pc = "none" /\ alpha = beta) =>
          dist = UndeterminedPositions(alpha_seq, alpha_seq)

C5_Witness ==
    /\ pc = "none"
    /\ alpha = beta
    /\ Len(alpha_seq) = 21
    /\ UndeterminedPositions(alpha_seq, alpha_seq) > 1
    /\ \E i \in 1..21 : Determined(alpha_seq[i])

(***************************************************************************)
(* C6: the code holds one 3-bit group per symbol, the first symbol in the  *)
(* most significant used group, a determined base as A=000, C=110, T=101,  *)
(* G=011; every bit from 3n upwards is 0; "ACTG" packs to 0b000110101011.  *)
(***************************************************************************)
PackingLayout(text, bb) ==
    bb.ok =>
        /\ \A i \in 1..Len(text) :
             Determined(text[i]) => GroupOf(bb.code, Len(text), i) = g(text[i])
        /\ \A b \in bb.code : b < 3 * Len(text)
        /\ text = <<"A", "C", "T", "G">> => bb.code = U64(427)

C6_PackingLayout ==
    pc = "new" => PackingLayout(alpha_seq, alpha) /\ PackingLayout(beta_seq, beta)

C6_Witness ==
    /\ pc = "new"
    /\ alpha_seq = <<"A", "C", "T", "G">>
    /\ alpha.ok
    /\ Len(beta_seq) = 5
    /\ Determined(beta_seq[1]) /\ beta_seq[1] # "A"
    /\ ~Determined(beta_seq[5])

(***************************************************************************)
(* C7: every undetermined symbol, 'N' or an unrecognized byte, is packed   *)
(* into the code as the group 001.                                         *)
(***************************************************************************)
UndeterminedGroupIs(text, bb, v) ==
    bb.ok => \A i \in 1..Len(text) :
                ~Determined(text[i]) => GroupOf(bb.code, Len(text), i) = v

C7_UndeterminedIs001 ==
    pc = "new" => UndeterminedGroupIs(alpha_seq, alpha, 1)
                  /\ UndeterminedGroupIs(beta_seq, beta, 1)

(***************************************************************************)
(* C8: hamming_code is the number of differing bits of the two words       *)
(* halved; on inputs of one length over A, C, G, T it is                   *)
(* hamming_dist_nany, the number of positions where the inputs differ.     *)
(***************************************************************************)
C8_RawCode ==
    pc = "code" =>
        /\ 2 * dist <= Cardinality(BitXor(alpha.code, beta.code))
        /\ Cardinality(BitXor(alpha.code, beta.code)) <= 2 * dist + 1
        /\ (SameLength /\ AllDetermined(alpha_seq) /\ AllDetermined(beta_seq)) =>
              /\ dist = hamming_dist_nany(alpha, beta)
              /\ dist = Cardinality({i \in 1..Len(alpha_seq) :
                                        alpha_seq[i] # beta_seq[i]})

C8_Witness ==
    /\ pc = "code"
    /\ SameLength
    /\ Len(alpha_seq) = 21
    /\ AllDetermined(alpha_seq) /\ AllDetermined(beta_seq)
    /\ dist > 1
    /\ dist < 21

KnownBaseMask(text, bb) ==
    bb.ok =>
        /\ \A i \in 1..Len(text) :
             /\ GroupOf(bb.nbits, Len(text), i)
                  = (IF Determined(text[i]) THEN 7 ELSE 0)
             /\ GroupOf(bb.nbits, Len(text), i) = 0
                  <=> U64(GroupOf(bb.code, Len(text), i)) = UNDETERMINED
        /\ \A b \in (3 * Len(text))..63 : b \in bb.nbits

C10_KnownBaseMask ==
    pc = "new" => KnownBaseMask(alpha_seq, alpha) /\ KnownBaseMask(beta_seq, beta)

C10_Witness ==
    /\ pc = "new"
    /\ Len(alpha_seq) = 21 /\ alpha.ok
    /\ ~Determined(alpha_seq[1])
    /\ \E i \in 1..21 : Determined(alpha_seq[i])
    /\ 63 \in alpha.nbits

====
